---------------------------- MODULE Spec2Model ----------------------------
(***************************************************************************)
(* A model of the maze solver of src/src/lib.rs: MazeSolver::solution, a   *)
(* best-first search over a grid of tiles whose frontier is a binary heap  *)
(* of agents ordered by priority_points, with the explored set, the parent *)
(* map and the path rebuilt from the parent map.                           *)
(*                                                                         *)
(* Coordinates are 0-based as in the source; TLA+ sequences are 1-based,   *)
(* so the tile of (x, y) is maze[y + 1][x + 1] and the heap slot i is      *)
(* data[i + 1].                                                            *)
(***************************************************************************)
EXTENDS Integers, Sequences, FiniteSets, TLC

VARIABLES maze, starting_point, ending_point,
          frontier, explored_set, parent_map, final_agent,
          pc, result, previous,
          pops, pushed, stdout

vars == << maze, starting_point, ending_point,
           frontier, explored_set, parent_map, final_agent,
           pc, result, previous, pops, pushed, stdout >>

(* pops and pushed record the history of one call of solution: the agents  *)
(* popped so far, in order, and the agents pushed by the latest step.      *)
(* stdout holds the lines main has written.                                *)

solver == << maze, starting_point, ending_point >>

-----------------------------------------------------------------------------
(* Bounds of the model: the widest and the tallest grid, the largest grid   *)
(* area and the most walls Init draws, and the side of the largest grid    *)
(* without walls InitOpen draws.                                           *)
MaxWidth == 4
MaxHeight == 4
MaxCells == 12
MaxWalls == 2
MaxOpenSide == 4

(* Bounds of InitOutside: the side of the largest grid, its walls, and how *)
(* far beyond the last column or row an endpoint may lie.                  *)
MaxOutsideSide == 2
MaxOutsideWalls == 1
MaxBeyond == 1

-----------------------------------------------------------------------------
(* Tiles, coordinates and the grid.                                        *)
Tile == {"Wall", "Path"}

Coordination(x, y) == [x |-> x, y |-> y]

Width(m) == Len(m[1])
Height(m) == Len(m)

InBounds(c, m) == c.y < Height(m) /\ c.x < Width(m)

Cells(w, h) == {Coordination(x, y) : x \in 0..(w - 1), y \in 0..(h - 1)}

(* Coordination::absolute_manhattan                                        *)
absolute_manhattan(c) == c.x + c.y

(* usize::abs_diff                                                         *)
abs_diff(a, b) == IF a >= b THEN a - b ELSE b - a

(* distance that adds the two sums where the source takes their difference. *)
distance_added(from, to) == absolute_manhattan(from) + absolute_manhattan(to)

(* ManhattanDistance::distance                                             *)
distance(from, to) == abs_diff(absolute_manhattan(from), absolute_manhattan(to))

(* is_movable_in that takes any tile of the grid for movable.              *)
is_movable_in_any(c, m) == m[c.y + 1][c.x + 1] \in Tile

(* Coordination::is_movable_in; indexing outside the grid panics, which    *)
(* the caller models by testing InBounds first.                            *)
is_movable_in(c, m) == m[c.y + 1][c.x + 1] = "Path"

(* neighbors_in that takes every index from the last one on for the last.  *)
neighbors_in_from_last(c, m) ==
    LET x == c.x
        y == c.y
        xs == IF x = 0 THEN << Coordination(1, y) >>
              ELSE IF x >= Width(m) - 1 THEN << Coordination(x - 1, y) >>
              ELSE << Coordination(x + 1, y), Coordination(x - 1, y) >>
        ys == IF y = 0 THEN << Coordination(x, 1) >>
              ELSE IF y >= Height(m) - 1 THEN << Coordination(x, y - 1) >>
              ELSE << Coordination(x, y + 1), Coordination(x, y - 1) >>
    IN xs \o ys

(* neighbors_in whose arm for y = 0 repeats the arm for x = 0.             *)
neighbors_in_copied_arm(c, m) ==
    LET x == c.x
        y == c.y
        xs == IF x = 0 THEN << Coordination(1, y) >>
              ELSE IF x = Width(m) - 1 THEN << Coordination(x - 1, y) >>
              ELSE << Coordination(x + 1, y), Coordination(x - 1, y) >>
        ys == IF y = 0 THEN << Coordination(1, y) >>
              ELSE IF y = Height(m) - 1 THEN << Coordination(x, y - 1) >>
              ELSE << Coordination(x, y + 1), Coordination(x, y - 1) >>
    IN xs \o ys

(* Agent::neighbors_in: the x axis first, then the y axis; on each axis    *)
(* index 0 offers +1, the last index offers -1, any other index both.      *)
neighbors_in(c, m) ==
    LET x == c.x
        y == c.y
        xs == IF x = 0 THEN << Coordination(1, y) >>
              ELSE IF x = Width(m) - 1 THEN << Coordination(x - 1, y) >>
              ELSE << Coordination(x + 1, y), Coordination(x - 1, y) >>
        ys == IF y = 0 THEN << Coordination(x, 1) >>
              ELSE IF y = Height(m) - 1 THEN << Coordination(x, y - 1) >>
              ELSE << Coordination(x, y + 1), Coordination(x, y - 1) >>
    IN xs \o ys

-----------------------------------------------------------------------------
(* Agents and their order.                                                 *)
(* An agent whose priority points leave out the steps taken.              *)
Agent_without_steps(c, steps, goal) ==
    [coordination |-> c, steps |-> steps,
     priority_points |-> distance(c, goal)]

Agent(c, steps, goal) ==
    [coordination |-> c, steps |-> steps,
     priority_points |-> steps + distance(c, goal)]

(* The order of the priority points themselves, not reversed.              *)
AgentLe_unreversed(a, b) == a.priority_points <= b.priority_points

(* a <= b under impl PartialOrd for Agent, which compares the priority     *)
(* points the other way round: the lowest priority_points is the greatest. *)
AgentLe(a, b) == b.priority_points <= a.priority_points

-----------------------------------------------------------------------------
(* The frontier: std's BinaryHeap over a vector, a max-heap under AgentLe. *)
RECURSIVE SiftUpLoop(_, _, _, _)
SiftUpLoop(data, elt, start, pos) ==
    IF pos > start
    THEN LET parent == (pos - 1) \div 2
         IN IF AgentLe(elt, data[parent + 1])
            THEN [data EXCEPT ![pos + 1] = elt]
            ELSE SiftUpLoop([data EXCEPT ![pos + 1] = data[parent + 1]],
                            elt, start, parent)
    ELSE [data EXCEPT ![pos + 1] = elt]

sift_up(data, start, pos) == SiftUpLoop(data, data[pos + 1], start, pos)

RECURSIVE SiftDownLoop(_, _, _, _)
SiftDownLoop(data, elt, start, pos) ==
    LET end == Len(data)
        child == 2 * pos + 1
    IN IF end >= 2 /\ child <= end - 2
       THEN LET c == IF AgentLe(data[child + 1], data[child + 2])
                     THEN child + 1 ELSE child
            IN SiftDownLoop([data EXCEPT ![pos + 1] = data[c + 1]],
                            elt, start, c)
       ELSE IF child = end - 1
            THEN sift_up([data EXCEPT ![pos + 1] = data[child + 1],
                                      ![child + 1] = elt], start, child)
            ELSE sift_up([data EXCEPT ![pos + 1] = elt], start, pos)

sift_down_to_bottom(data, pos) == SiftDownLoop(data, data[pos + 1], pos, pos)

(* BinaryHeap::push                                                        *)
heap_push(data, item) == sift_up(Append(data, item), 0, Len(data))

(* BinaryHeap::pop on a non-empty heap: the item returned and the heap     *)
(* left: the last slot replaces the root and sinks to the bottom.          *)
heap_pop(data) ==
    LET last == data[Len(data)]
        rest == SubSeq(data, 1, Len(data) - 1)
    IN IF rest = << >>
       THEN [item |-> last, data |-> rest]
       ELSE [item |-> rest[1],
             data |-> sift_down_to_bottom([rest EXCEPT ![1] = last], 0)]

-----------------------------------------------------------------------------
(* Option and Result values.                                               *)
None == << >>
Some(v) == << v >>

NoResult == [tag |-> "None", path |-> << >>]
Ok(path) == [tag |-> "Ok", path |-> path]
Err == [tag |-> "Err", path |-> << >>]

(* The path left in the order it was collected, goal first.                *)
Reverse_omitted(s) == s

(* Vec::reverse                                                            *)
Reverse(s) == [i \in 1..Len(s) |-> s[Len(s) + 1 - i]]

(* is_solved that takes no agent for solved before it has moved.           *)
is_solved_after_move(agent) ==
    ending_point = agent.coordination /\ agent.steps > 0

(* MazeSolver::is_solved                                                   *)
is_solved(agent) == ending_point = agent.coordination

-----------------------------------------------------------------------------
(* The for loop body without the test of the explored set.                 *)
Visit_unchecked(st, neighbor, agent, explored) ==
    IF st.panicked THEN st
    ELSE IF ~InBounds(neighbor, maze) THEN [st EXCEPT !.panicked = TRUE]
    ELSE IF is_movable_in(neighbor, maze)
         THEN LET new_steps == agent.steps + 1
              IN [st EXCEPT
                    !.frontier = heap_push(@, Agent(neighbor, new_steps, ending_point)),
                    !.parent_map = (neighbor :> agent.coordination) @@ @,
                    !.pushed = Append(@, Agent(neighbor, new_steps, ending_point))]
         ELSE st

(* The body of the for loop of solution for one neighbor. st carries the   *)
(* frontier and the parent map built so far and whether a tile lookup      *)
(* has panicked; explored is the explored set, which the loop only reads.  *)
Visit(st, neighbor, agent, explored) ==
    IF st.panicked \/ neighbor \in explored THEN st
    ELSE IF ~InBounds(neighbor, maze) THEN [st EXCEPT !.panicked = TRUE]
    ELSE IF is_movable_in(neighbor, maze)
         THEN LET new_steps == agent.steps + 1
              IN [st EXCEPT
                    !.frontier = heap_push(@, Agent(neighbor, new_steps, ending_point)),
                    !.parent_map = (neighbor :> agent.coordination) @@ @,
                    !.pushed = Append(@, Agent(neighbor, new_steps, ending_point))]
         ELSE st

RECURSIVE VisitAll(_, _, _, _, _)
VisitAll(st, neighbors, i, agent, explored) ==
    IF i > Len(neighbors) THEN st
    ELSE VisitAll(Visit(st, neighbors[i], agent, explored),
                  neighbors, i + 1, agent, explored)

(* The while let of solution that follows the parent map from the goal.    *)
RECURSIVE FollowParents(_, _)
FollowParents(path, parents) ==
    LET last == path[Len(path)]
    IN IF last \in DOMAIN parents
       THEN FollowParents(Append(path, parents[last]), parents)
       ELSE path

-----------------------------------------------------------------------------
(* The inputs: every grid of at most MaxWidth x MaxHeight tiles and at     *)
(* most MaxCells tiles in all, with at most MaxWalls walls, and every pair *)
(* of Path tiles as start and end.                                         *)
RECURSIVE WallSets(_, _)
WallSets(cells, k) ==
    IF k = 0 THEN {{}}
    ELSE LET smaller == WallSets(cells, k - 1)
         IN smaller \cup {ws \cup {c} : ws \in smaller, c \in cells}

MazeOf(w, h, walls) ==
    [row \in 1..h |->
        [col \in 1..w |->
            IF Coordination(col - 1, row - 1) \in walls THEN "Wall" ELSE "Path"]]

(* The locals of solution before it is called.                             *)
Idle ==
    /\ frontier = << >>
    /\ explored_set = {}
    /\ parent_map = << >>
    /\ final_agent = None
    /\ pc = "new"
    /\ result = NoResult
    /\ previous = NoResult
    /\ pops = << >>
    /\ pushed = << >>
    /\ stdout = << >>

(* MazeSolver::new on a grid without walls.                                *)
InitOpen ==
    /\ \E w \in 1..MaxOpenSide, h \in 1..MaxOpenSide :
            /\ maze = MazeOf(w, h, {})
            /\ starting_point \in Cells(w, h)
            /\ ending_point \in Cells(w, h)
    /\ Idle

(* MazeSolver::new with the start, the end or both outside the grid; an    *)
(* endpoint inside the grid is a Path tile.                                *)
InitOutside ==
    /\ \E w \in 1..MaxOutsideSide, h \in 1..MaxOutsideSide :
         \E walls \in WallSets(Cells(w, h), MaxOutsideWalls) :
            /\ maze = MazeOf(w, h, walls)
            /\ starting_point \in Cells(w + MaxBeyond, h + MaxBeyond) \ walls
            /\ ending_point \in Cells(w + MaxBeyond, h + MaxBeyond) \ walls
            /\ \/ starting_point \notin Cells(w, h)
               \/ ending_point \notin Cells(w, h)
    /\ Idle

(* MazeSolver::new, before solution is called.                             *)
Init ==
    /\ \E w \in 1..MaxWidth, h \in 1..MaxHeight :
         /\ w * h <= MaxCells
         /\ \E walls \in WallSets(Cells(w, h), MaxWalls) :
               /\ maze = MazeOf(w, h, walls)
               /\ starting_point \in Cells(w, h) \ walls
               /\ ending_point \in Cells(w, h) \ walls
    /\ Idle

(* solution that keeps the explored set of an earlier call.                *)
Enter_stale ==
    /\ frontier' = heap_push(<< >>, Agent(starting_point, 0, ending_point))
    /\ explored_set' = explored_set
    /\ parent_map' = << >>
    /\ final_agent' = None
    /\ pc' = "loop"
    /\ pops' = << >>
    /\ pushed' = << Agent(starting_point, 0, ending_point) >>
    /\ UNCHANGED stdout

(* solution, down to the push of the initial agent.                        *)
Enter ==
    /\ frontier' = heap_push(<< >>, Agent(starting_point, 0, ending_point))
    /\ explored_set' = {}
    /\ parent_map' = << >>
    /\ final_agent' = None
    /\ pc' = "loop"
    /\ pops' = << >>
    /\ pushed' = << Agent(starting_point, 0, ending_point) >>
    /\ UNCHANGED stdout

Solution_Enter ==
    /\ pc = "new"
    /\ Enter
    /\ UNCHANGED << solver, result, previous >>

(* One iteration of the while loop of solution.                            *)
Loop_Iteration ==
    /\ pc = "loop"
    /\ final_agent = None
    /\ frontier # << >>
    /\ LET popped == heap_pop(frontier)
           agent == popped.item
           explored == explored_set \cup {agent.coordination}
       IN /\ explored_set' = explored
          /\ pops' = Append(pops, agent)
          /\ IF is_solved(agent)
             THEN /\ final_agent' = Some(agent)
                  /\ frontier' = popped.data
                  /\ pushed' = << >>
                  /\ UNCHANGED << parent_map, pc >>
             ELSE LET st == VisitAll([frontier |-> popped.data,
                                      parent_map |-> parent_map,
                                      pushed |-> << >>,
                                      panicked |-> FALSE],
                                     neighbors_in(agent.coordination, maze),
                                     1, agent, explored)
                  IN /\ frontier' = st.frontier
                     /\ parent_map' = st.parent_map
                     /\ pushed' = st.pushed
                     /\ pc' = IF st.panicked THEN "panicked" ELSE "loop"
                     /\ UNCHANGED final_agent
    /\ UNCHANGED << solver, result, previous, stdout >>

(* The end of solution: the path rebuilt from the parent map, or Err.      *)
Solution_Return ==
    /\ pc = "loop"
    /\ final_agent # None \/ frontier = << >>
    /\ result' = IF final_agent # None
                 THEN Ok(Reverse(FollowParents(<< final_agent[1].coordination >>,
                                               parent_map)))
                 ELSE Err
    /\ pc' = "returned"
    /\ UNCHANGED << solver, frontier, explored_set, parent_map, final_agent, previous,
                    pops, pushed, stdout >>

(* A second call of solution on the same MazeSolver.                       *)
Solution_Again ==
    /\ pc = "returned"
    /\ previous = NoResult
    /\ previous' = result
    /\ result' = NoResult
    /\ Enter
    /\ UNCHANGED solver

(* main's match with the arms for up and down exchanged.                   *)
Label_up_down_exchanged(before, after) ==
    LET dx == after.x - before.x
        dy == after.y - before.y
    IN IF dx = -1 THEN "left"
       ELSE IF dy = -1 THEN "down"
       ELSE IF dx = 1 THEN "right"
       ELSE IF dy = 1 THEN "up"
       ELSE "panic"

(* The match of main on the deltas of one step, arms in source order; the  *)
(* last arm panics.                                                        *)
Label(before, after) ==
    LET dx == after.x - before.x
        dy == after.y - before.y
    IN IF dx = -1 THEN "left"
       ELSE IF dy = -1 THEN "up"
       ELSE IF dx = 1 THEN "right"
       ELSE IF dy = 1 THEN "down"
       ELSE "panic"

(* main after solution has returned: unwrap, then one line for every       *)
(* window of two coordinates, up to the first step that panics.            *)
Main_Write ==
    /\ pc = "returned"
    /\ IF result.tag = "Err"
       THEN /\ pc' = "main_panicked"
            /\ UNCHANGED stdout
       ELSE LET labels == [i \in 1..(Len(result.path) - 1) |->
                              Label(result.path[i], result.path[i + 1])]
                bad == {i \in 1..Len(labels) : labels[i] = "panic"}
            IN IF bad = {}
               THEN /\ stdout' = labels
                    /\ pc' = "exited"
               ELSE /\ stdout' = SubSeq(labels, 1,
                                        (CHOOSE i \in bad : \A j \in bad : i <= j) - 1)
                    /\ pc' = "main_panicked"
    /\ UNCHANGED << solver, frontier, explored_set, parent_map, final_agent,
                    result, previous, pops, pushed >>

Next == Solution_Enter \/ Loop_Iteration \/ Solution_Return

Spec == Init /\ [][Next]_vars

NextTwice == Next \/ Solution_Again

SpecTwice == Init /\ [][NextTwice]_vars

SpecOpen == InitOpen /\ [][Next]_vars

SpecOutside == InitOutside /\ [][Next]_vars

NextMain == Next \/ Main_Write

SpecMain == Init /\ [][NextMain]_vars

(* solution runs to completion once called: no suspension points.          *)
FairSpec == SpecOpen /\ WF_vars(Next)

-----------------------------------------------------------------------------
(* What the properties speak of: true orthogonal adjacency, Path tiles     *)
(* inside the grid, and the least number of orthogonal moves through Path  *)
(* tiles, found breadth first (-1 when there is no way).                   *)
Adjacent(a, b) == abs_diff(a.x, b.x) + abs_diff(a.y, b.y) = 1

OpenCell(c, m) == InBounds(c, m) /\ m[c.y + 1][c.x + 1] = "Path"

OpenCells(m) == {c \in Cells(Width(m), Height(m)) : OpenCell(c, m)}

RECURSIVE BfsLoop(_, _, _, _, _)
BfsLoop(m, layer, seen, to, d) ==
    IF to \in layer THEN d
    ELSE LET next == {c \in OpenCells(m) \ seen : \E b \in layer : Adjacent(b, c)}
         IN IF next = {} THEN -1
            ELSE BfsLoop(m, next, seen \cup next, to, d + 1)

ShortestDistance(m, from, to) == BfsLoop(m, {from}, {from}, to, 0)

Reachable == ShortestDistance(maze, starting_point, ending_point) >= 0

Edges(path) == Len(path) - 1

Finished == pc \in {"returned", "panicked"}

-----------------------------------------------------------------------------
(* C1: whenever solution returns a path, the number of edges of the path   *)
(* is the least number of orthogonal moves through Path tiles from the     *)
(* start to the end.                                                       *)
C1_PathIsShortest ==
    result.tag = "Ok" =>
        Edges(result.path) = ShortestDistance(maze, starting_point, ending_point)

(* C2: on a grid without walls solution returns a path whose number of     *)
(* edges is the Manhattan distance between the start and the end.          *)
C2_OpenGridManhattan ==
    Finished =>
        /\ result.tag = "Ok"
        /\ Edges(result.path) = abs_diff(starting_point.x, ending_point.x)
                                + abs_diff(starting_point.y, ending_point.y)

(* C3: in every path returned, consecutive coordinates differ by one unit  *)
(* on exactly one axis and every coordinate is a Path tile of the grid.    *)
C3_PathIsOrthogonalAndOpen ==
    result.tag = "Ok" =>
        /\ \A i \in 1..(Len(result.path) - 1) :
              Adjacent(result.path[i], result.path[i + 1])
        /\ \A i \in 1..Len(result.path) : OpenCell(result.path[i], maze)

(* A path with a turn that passes beside a wall has been returned.         *)
C3_Witness ==
    /\ result.tag = "Ok"
    /\ Len(result.path) >= 4
    /\ \E i \in 1..Len(result.path) : result.path[i].x # result.path[1].x
    /\ \E i \in 1..Len(result.path) : result.path[i].y # result.path[1].y
    /\ \E c \in Cells(Width(maze), Height(maze)) :
          /\ ~OpenCell(c, maze)
          /\ \E i \in 1..Len(result.path) : Adjacent(c, result.path[i])

(* C4: every path returned begins at the start, ends at the end and holds  *)
(* no coordinate twice.                                                    *)
C4_PathFromStartToEnd ==
    result.tag = "Ok" =>
        /\ result.path[1] = starting_point
        /\ result.path[Len(result.path)] = ending_point
        /\ \A i, j \in 1..Len(result.path) :
              result.path[i] = result.path[j] => i = j

(* A path of several coordinates between distinct endpoints is returned.   *)
C4_Witness ==
    /\ result.tag = "Ok"
    /\ starting_point # ending_point
    /\ Len(result.path) >= 3

(* C5: when no sequence of adjacent Path tiles joins the start to the end, *)
(* solution does not fault and returns Err.                                *)
C5_UnreachableIsErr ==
    Finished /\ ~Reachable => pc = "returned" /\ result = Err

(* C6: when the end can be reached from the start, solution returns a path *)
(* and neither Err nor a fault.                                            *)
C6_ReachableIsOk ==
    Finished /\ Reachable => pc = "returned" /\ result.tag = "Ok"

(* C7: the search loop ends by popping an agent at the end or by emptying  *)
(* the frontier, after which solution returns.                             *)
C7_LoopTerminates == <>(pc = "returned")

(* C8: when the start is the end, solution returns the path of that one    *)
(* coordinate after the first pop: nothing but the initial agent is ever   *)
(* pushed, no parent is recorded and no tile is looked up.                 *)
C8_StartIsEnd ==
    starting_point = ending_point =>
        /\ pc # "panicked"
        /\ Len(frontier) <= 1
        /\ parent_map = << >>
        /\ explored_set \subseteq {starting_point}
        /\ pc = "returned" =>
              /\ result = Ok(<< starting_point >>)
              /\ frontier = << >>
              /\ explored_set = {starting_point}

(* solution has returned on the grid of one tile.                          *)
C8_Witness ==
    /\ pc = "returned"
    /\ starting_point = ending_point
    /\ Width(maze) = 1
    /\ Height(maze) = 1

(* C9: for every coordinate of the grid, neighbors_in yields between two   *)
(* and four coordinates, each inside the grid and orthogonally adjacent.   *)
C9_NeighborsInBounds ==
    \A c \in Cells(Width(maze), Height(maze)) :
        LET neighbors == neighbors_in(c, maze)
        IN /\ Len(neighbors) \in 2..4
           /\ \A i \in 1..Len(neighbors) :
                 InBounds(neighbors[i], maze) /\ Adjacent(c, neighbors[i])

(* C10: a second call of solution on the same MazeSolver starts from a     *)
(* fresh frontier, explored set and parent map, and yields the outcome of  *)
(* the first call.                                                         *)
C10_SameOutcomeTwice ==
    previous # NoResult =>
        /\ pc # "panicked"
        /\ explored_set = {} =>
              /\ parent_map = << >>
              /\ final_agent = None
              /\ frontier = << Agent(starting_point, 0, ending_point) >>
        /\ pc = "returned" => result = previous

(* Both calls have returned the same path of several coordinates.          *)
C10_Witness ==
    /\ pc = "returned"
    /\ previous.tag = "Ok"
    /\ Len(previous.path) >= 3
    /\ result = previous

(* C11: when the start or the end lies outside the grid, solution faults   *)
(* on a tile lookup and returns neither a path nor Err.                    *)
C11_OutsideFaults ==
    ~InBounds(starting_point, maze) \/ ~InBounds(ending_point, maze) =>
        pc # "returned"

(* C11 as amended: a start outside the grid that is not the end faults in  *)
(* the first iteration of the loop; an end outside the grid with the start *)
(* inside never yields a path, and yields Err on a grid at least 2x2; a    *)
(* start outside that is also the end yields the path of that coordinate.  *)
C11_OutsideStartFaults ==
    /\ ~InBounds(starting_point, maze) /\ starting_point # ending_point =>
          \/ pc = "new"
          \/ pc = "loop" /\ pops = << >>
          \/ pc = "panicked" /\ Len(pops) = 1 /\ pushed = << >>
    /\ InBounds(starting_point, maze) /\ ~InBounds(ending_point, maze) =>
          /\ result.tag # "Ok"
          /\ Finished /\ Width(maze) >= 2 /\ Height(maze) >= 2 =>
                pc = "returned" /\ result = Err
    /\ ~InBounds(starting_point, maze) /\ starting_point = ending_point =>
          /\ pc # "panicked"
          /\ pc = "returned" => result = Ok(<< starting_point >>)

(* solution has faulted on the first lookup from a start outside the grid. *)
C11_Witness ==
    /\ ~InBounds(starting_point, maze)
    /\ InBounds(ending_point, maze)
    /\ pc = "panicked"
    /\ Len(pops) = 1

(* The agents expanded so far: those popped that were not at the end.      *)
Expanded == SelectSeq(pops, LAMBDA a : a.coordination # ending_point)

PoppedCoordinations == {pops[i].coordination : i \in 1..Len(pops)}

(* C12: within one search no coordinate is expanded more than once.        *)
C12_NoReExpansion ==
    \A i, j \in 1..Len(Expanded) :
        Expanded[i].coordination = Expanded[j].coordination => i = j

(* C13: the explored set is exactly the set of coordinates popped so far,  *)
(* no step of a search removes a coordinate from it, and no step pushes an *)
(* agent at a coordinate that the explored set then holds.                 *)
C13_ExploredSetGrows ==
    /\ [](explored_set = PoppedCoordinations)
    /\ [][/\ explored_set \subseteq explored_set'
          /\ \A i \in 1..Len(pushed') :
                pushed'[i].coordination \notin explored_set']_vars

(* Several coordinates are explored and agents were pushed by the latest   *)
(* iteration, next to an explored neighbor that was passed over.           *)
C13_Witness ==
    /\ Cardinality(explored_set) >= 3
    /\ pushed # << >>
    /\ Len(pops) >= 3
    /\ \E c \in explored_set : Adjacent(c, pops[Len(pops)].coordination)

(* C14: every key of the parent map is a Path tile of the grid, its parent *)
(* is orthogonally adjacent to it, and its parent is in the explored set.  *)
C14_ParentMapSound ==
    \A k \in DOMAIN parent_map :
        /\ OpenCell(k, maze)
        /\ Adjacent(parent_map[k], k)
        /\ parent_map[k] \in explored_set

(* Parents have been recorded from several expanded coordinates.           *)
C14_Witness ==
    /\ Cardinality(DOMAIN parent_map) >= 4
    /\ Cardinality({parent_map[k] : k \in DOMAIN parent_map}) >= 3

(* The parent links followed from a coordinate, for at most fuel links.    *)
RECURSIVE ParentChain(_, _)
ParentChain(chain, fuel) ==
    LET last == chain[Len(chain)]
    IN IF fuel > 0 /\ last \in DOMAIN parent_map
       THEN ParentChain(Append(chain, parent_map[last]), fuel - 1)
       ELSE chain

ChainFrom(c) == ParentChain(<< c >>, Cardinality(DOMAIN parent_map) + 1)

(* C15: the start is never a key of the parent map; following the parent   *)
(* links from any explored coordinate never meets a coordinate twice and   *)
(* stops at the start; and no step changes the parent of a coordinate that *)
(* is in the explored set.                                                 *)
C15_ParentChainsEndAtStart ==
    /\ [](/\ starting_point \notin DOMAIN parent_map
          /\ \A c \in explored_set :
                LET chain == ChainFrom(c)
                IN /\ chain[Len(chain)] = starting_point
                   /\ \A i, j \in 1..Len(chain) : chain[i] = chain[j] => i = j)
    /\ [][\A k \in explored_set \cap DOMAIN parent_map :
             k \in DOMAIN parent_map' /\ parent_map'[k] = parent_map[k]]_vars

(* An explored coordinate lies three parent links from the start, and a    *)
(* neighbor of the agent popped last was already explored.                 *)
C15_Witness ==
    /\ \E c \in explored_set : Len(ChainFrom(c)) >= 4
    /\ Len(pops) >= 2
    /\ \E k \in explored_set \cap DOMAIN parent_map :
          /\ k # pops[Len(pops)].coordination
          /\ Adjacent(k, pops[Len(pops)].coordination)

(* C16: when solution returns a path, the steps of the final agent equal   *)
(* the number of edges of the path.                                        *)
C16_StepsEqualEdges ==
    result.tag = "Ok" => final_agent[1].steps = Edges(result.path)

(* The least number of moves through Path tiles from a tile to every tile  *)
(* that can be reached from it, found breadth first in one sweep.          *)
RECURSIVE DistanceSweep(_, _, _, _)
DistanceSweep(open, layer, d, found) ==
    LET next == {c \in open \ DOMAIN found : \E b \in layer : Adjacent(b, c)}
    IN IF next = {} THEN found
       ELSE DistanceSweep(open, next, d + 1, found @@ [c \in next |-> d + 1])

DistancesFrom(m, from) ==
    DistanceSweep(OpenCells(m), {from}, 0, [c \in {from} |-> 0])

(* The agent popped last, when no agent was popped before it at the same   *)
(* coordinate.                                                             *)
LastPopIsFirstOfCoordination ==
    /\ pops # << >>
    /\ \A j \in 1..(Len(pops) - 1) :
          pops[j].coordination # pops[Len(pops)].coordination

(* C17: the first agent popped at a coordinate carries the least number of *)
(* moves through Path tiles from the start to that coordinate; so does the *)
(* final agent for the end.                                                *)
C17_FirstPopIsShortest ==
    LastPopIsFirstOfCoordination \/ final_agent # None =>
        LET moves == DistancesFrom(maze, starting_point)
            agent == pops[Len(pops)]
        IN /\ LastPopIsFirstOfCoordination =>
                 /\ agent.coordination \in DOMAIN moves
                 /\ agent.steps = moves[agent.coordination]
           /\ final_agent # None =>
                 /\ ending_point \in DOMAIN moves
                 /\ final_agent[1].steps = moves[ending_point]

(* The end was popped after a coordinate had been popped twice, four or    *)
(* more moves from the start.                                              *)
C17_Witness ==
    /\ final_agent # None
    /\ final_agent[1].steps >= 4
    /\ \E i, j \in 1..Len(pops) :
          i # j /\ pops[i].coordination = pops[j].coordination

(* The estimated total cost of an agent: its steps and the heuristic from  *)
(* its coordinate to the end.                                              *)
EstimatedTotalCost(a) == a.steps + distance(a.coordination, ending_point)

(* C18: every pop takes an agent whose estimated total cost is least among *)
(* the agents then in the frontier, and is not less than the estimated     *)
(* total cost of the agent popped before it.                               *)
C18_PopsAreLeastAndMonotonic ==
    [][Len(pops') = Len(pops) + 1 =>
          LET agent == pops'[Len(pops')]
          IN /\ \A i \in 1..Len(frontier) :
                   EstimatedTotalCost(agent) <= EstimatedTotalCost(frontier[i])
             /\ pops # << >> =>
                   EstimatedTotalCost(pops[Len(pops)]) <= EstimatedTotalCost(agent)]_vars

(* Agents have been popped, the last at a higher estimated total cost than *)
(* the first, while agents of a still higher cost wait in the frontier.    *)
C18_Witness ==
    /\ Len(pops) >= 3
    /\ EstimatedTotalCost(pops[1]) < EstimatedTotalCost(pops[Len(pops)])
    /\ Len(frontier) >= 2
    /\ \E i \in 1..Len(frontier) :
          EstimatedTotalCost(pops[Len(pops)]) < EstimatedTotalCost(frontier[i])

(* C19: the heuristic from any tile of the grid to the end is 0 for the    *)
(* end itself, at most the Manhattan distance, and at most the least       *)
(* number of moves through Path tiles whenever there is a way; the         *)
(* priority points of every agent in the frontier are built from it. The   *)
(* grid and the end never change, so the first part is evaluated until the *)
(* first pop only.                                                         *)
C19_HeuristicIsLowerBound ==
    /\ pops = << >> =>
       LET moves == DistancesFrom(maze, ending_point)
       IN \A a \in Cells(Width(maze), Height(maze)) :
             LET h == distance(a, ending_point)
             IN /\ a = ending_point => h = 0
                /\ distance(ending_point, a) = h
                /\ h <= abs_diff(a.x, ending_point.x) + abs_diff(a.y, ending_point.y)
                /\ a \in DOMAIN moves => h <= moves[a]
    /\ \A i \in 1..Len(frontier) :
          frontier[i].priority_points - frontier[i].steps
             = distance(frontier[i].coordination, ending_point)

(* The frontier holds an agent whose heuristic is below the least number   *)
(* of moves to the end, which is above the Manhattan distance.             *)
C19_Witness ==
    \E i \in 1..Len(frontier) :
        LET a == frontier[i].coordination
        IN /\ distance(a, ending_point) < abs_diff(a.x, ending_point.x)
                                           + abs_diff(a.y, ending_point.y)
           /\ abs_diff(a.x, ending_point.x) + abs_diff(a.y, ending_point.y)
                 < ShortestDistance(maze, a, ending_point)

(* C20: for every path returned, main writes one line for each pair of     *)
(* consecutive coordinates, left for the delta (-1, 0), up for (0, -1),    *)
(* right for (1, 0) and down for (0, 1), and never reaches its panic arm.  *)
C20_OneLabelPerStep ==
    result.tag = "Ok" =>
        /\ pc # "main_panicked"
        /\ pc = "exited" =>
              /\ Len(stdout) = Len(result.path) - 1
              /\ \A i \in 1..Len(stdout) :
                    LET dx == result.path[i + 1].x - result.path[i].x
                        dy == result.path[i + 1].y - result.path[i].y
                    IN \/ dx = -1 /\ dy = 0 /\ stdout[i] = "left"
                       \/ dx = 0 /\ dy = -1 /\ stdout[i] = "up"
                       \/ dx = 1 /\ dy = 0 /\ stdout[i] = "right"
                       \/ dx = 0 /\ dy = 1 /\ stdout[i] = "down"

(* main has written a trace with three different directions.               *)
C20_Witness ==
    /\ pc = "exited"
    /\ Cardinality({stdout[i] : i \in 1..Len(stdout)}) >= 3

=============================================================================
